---------------------------- MODULE Spec2Model ----------------------------
(* Model of the hero carousel of static/js/modern-slider.js                *)
(* (class ModernHeroSlider).  Time is counted in units of 100 ms: every    *)
(* pending browser timer (setTimeout, setInterval, GSAP timeline) carries  *)
(* the time elapsed since it was armed, Tick lets 100 ms pass, and a timer *)
(* whose delay has elapsed fires before more time passes.  All timers run  *)
(* off the one clock; user events may arrive at any instant.               *)
EXTENDS Integers, Sequences, FiniteSets

(* ---------------- bounds of the model ---------------- *)
\* largest number of .hero-slide elements in the page
MaxSlides == 3
\* the page may carry up to this many more .slider-dot elements than slides
ExtraDots == 1
\* options.autoPlayDelay, in units of 100 ms
AutoPlayDelay == 10
\* cap on the number of pending timeouts / live intervals / timelines
MaxTimers == 3
\* largest age, in years, in the pets data
MaxAge == 2
\* number of slides of the long carousel whose counter is examined
MaxTextSlides == 100
\* largest number of elements staggered together
MaxStaggerLen == 4
\* largest staggerDelay, in units of 100 ms
MaxStaggerDelay == 2
\* cap on the number of whileHover / whileTap registrations on the element
MaxRegistrations == 2
\* cap on the number of live timelines of the element
MaxMotionTimelines == 3

(* ---------------- constants of the program ---------------- *)
\* setTimeout(..., animate ? 800 : 0)
TransitionTime == 8
\* first tween of the timeline: duration 0.3
FadeOutTime == 3
\* second tween of the timeline: duration 0.5
FadeInDuration == 5
\* second tween of the timeline: stagger 0.1
Stagger == 1
\* the four regions the timeline animates
NumRegions == 4
\* Math.abs(diffX) > 50, in units of 10 px
SwipeThreshold == 5
\* content rendered by the server template, before any updateContent
ServerRendered == -1

FadeInTime == FadeInDuration + (NumRegions - 1) * Stagger

VARIABLES
    container,       \* TRUE iff document.getElementById("heroSlider") exists
    slidesLen,       \* this.slides.length
    dotsLen,         \* this.dots.length
    petsLen,         \* this.pets.length
    petsAge,         \* index -> this.pets[index].age
    currentIndex,    \* this.currentIndex
    isTransitioning, \* this.isTransitioning
    autoPlay,        \* this.autoPlay
    autoPlayTimer,   \* this.autoPlayTimer: an interval id, 0 for null
    intervals,       \* live setInterval timers: id -> time elapsed in the period
    timeouts,        \* pending setTimeout callbacks of updateSlide
    timelines,       \* running GSAP timelines of animateSlideTransition
    slideActive,     \* indices of the slides carrying class "active"
    dotActive,       \* indices of the dots carrying class "active"
    content,         \* index of the pet whose data the content regions show
    target,          \* index argument of the last updateSlide that ran
    accepted,        \* TRUE iff the step just taken ran the body of updateSlide
    rejectedInFlight,\* TRUE iff a command was rejected since the last acceptance
    last,            \* the step just taken: source, command and argument
    hist,            \* the last accepted commands, when they are recorded
    stagger,         \* the last call of Motion.calculateStaggerDelays
    elementListeners,\* listeners added to the MotionElement's DOM element
    listeners,       \* this.listeners of the MotionElement: kind -> closures
    registrations,   \* number of whileHover / whileTap calls so far
    isAnimating,     \* this.isAnimating of the MotionElement
    motionTimelines, \* live timelines made by MotionElement.animate
    destroyed,       \* TRUE iff destroy() ran and nothing was registered since
    motionLast       \* the MotionElement step just taken

cfgVars == <<container, slidesLen, dotsLen, petsLen, petsAge>>
slideVars == <<currentIndex, isTransitioning, timeouts, timelines,
               slideActive, dotActive, content, target, accepted,
               rejectedInFlight>>
autoVars == <<autoPlay, autoPlayTimer, intervals>>
progVars == <<currentIndex, isTransitioning, timeouts, timelines,
              slideActive, dotActive, content, autoPlay, autoPlayTimer,
              intervals>>
vars == <<container, slidesLen, dotsLen, petsLen, petsAge, currentIndex,
          isTransitioning, autoPlay, autoPlayTimer, intervals, timeouts,
          timelines, slideActive, dotActive, content, target, accepted,
          rejectedInFlight, last, hist, stagger, elementListeners, listeners,
          registrations, isAnimating, motionTimelines, destroyed, motionLast>>

motionVars == <<elementListeners, listeners, registrations, isAnimating,
                motionTimelines, destroyed, motionLast>>

Step(src, cmd, arg) == [src |-> src, cmd |-> cmd, arg |-> arg]

Commands == {"next", "prev", "goto"}

\* the record of the accepted commands after a step that issued `cmd`:
\* c1, c2 are the last two accepted commands, from1 and from2 the values of
\* currentIndex before each, and start, len describe the current run of
\* consecutive accepted "next" commands
HistNext(cmd) ==
    IF ~hist.on \/ ~accepted' \/ cmd \notin Commands THEN hist
    ELSE [on |-> TRUE,
          c1 |-> hist.c2, from1 |-> hist.from2,
          c2 |-> cmd, from2 |-> currentIndex,
          start |-> IF cmd = "next" /\ hist.len \in 1 .. slidesLen - 1
                    THEN hist.start
                    ELSE IF cmd = "next" THEN currentIndex ELSE 0,
          len |-> IF cmd = "next" /\ hist.len \in 1 .. slidesLen - 1
                  THEN hist.len + 1
                  ELSE IF cmd = "next" THEN 1 ELSE 0]

NoHist(on) == [on |-> on, c1 |-> "none", from1 |-> 0, c2 |-> "none",
               from2 |-> 0, start |-> 0, len |-> 0]

\* what a step records about itself
Log(src, cmd, arg) ==
    /\ last' = Step(src, cmd, arg)
    /\ hist' = HistNext(cmd)
    /\ UNCHANGED <<stagger, motionVars>>

Abs(x) == IF x < 0 THEN -x ELSE x

\* init() returned early: no listener is registered
mounted == container /\ slidesLen > 0

(* ---------------- the slide state ---------------- *)

\* updateContent(index): the regions take the data of pets[index], if any
UpdateContent(index) ==
    IF index >= 0 /\ index < petsLen THEN index ELSE content

\* a step that is not a slide command
NoCommand ==
    /\ accepted' = FALSE
    /\ UNCHANGED <<currentIndex, isTransitioning, timeouts, timelines,
                   slideActive, dotActive, content, target, rejectedInFlight>>

\* a command that returns before it reaches the body of updateSlide
Rejected ==
    /\ accepted' = FALSE
    /\ rejectedInFlight' = (rejectedInFlight \/ isTransitioning)
    /\ UNCHANGED <<currentIndex, isTransitioning, timeouts, timelines,
                   slideActive, dotActive, content, target>>

\* the two delays of the reset timer exchanged
ResetDelaySwapped(animate) == IF animate THEN 0 ELSE TransitionTime

\* the flag reset as soon as the fade-out is under way
ResetDelayShort(animate) == IF animate THEN FadeOutTime - 1 ELSE 0

\* setTimeout(..., animate ? 800 : 0)
ResetDelay(animate) == IF animate THEN TransitionTime ELSE 0

\* classList.add alone: the class is never taken off
ToggleNoRemove(set, off, on, len) ==
    set \cup ({on} \cap (0 .. len - 1))

\* classList.remove on element `off`, then classList.add on element `on`,
\* of a collection of `len` elements (?. skips a missing element)
Toggle(set, off, on, len) ==
    (set \ {off}) \cup ({on} \cap (0 .. len - 1))

\* updateSlide without `this.isTransitioning = true`
UpdateSlideNoFlag(index, animate) ==
    IF isTransitioning /\ animate
    THEN Rejected
    ELSE /\ Len(timeouts) < MaxTimers
         /\ Len(timelines) < MaxTimers
         /\ isTransitioning' = isTransitioning
         /\ slideActive' = Toggle(slideActive, currentIndex, index, slidesLen)
         /\ dotActive' = Toggle(dotActive, currentIndex, index, dotsLen)
         /\ content' = IF petsLen > index THEN UpdateContent(index) ELSE content
         /\ timelines' = IF animate
                         THEN Append(timelines, [index |-> index,
                                                 phase |-> "fadeOut",
                                                 elapsed |-> 0])
                         ELSE timelines
         /\ currentIndex' = index
         /\ timeouts' = Append(timeouts,
                               [elapsed |-> 0,
                                delay |-> ResetDelay(animate)])
         /\ target' = index
         /\ accepted' = TRUE
         /\ rejectedInFlight' = FALSE

\* updateSlide without `this.currentIndex = index`
UpdateSlideNoCommit(index, animate) ==
    IF isTransitioning /\ animate
    THEN Rejected
    ELSE /\ Len(timeouts) < MaxTimers
         /\ Len(timelines) < MaxTimers
         /\ isTransitioning' = TRUE
         /\ slideActive' = Toggle(slideActive, currentIndex, index, slidesLen)
         /\ dotActive' = Toggle(dotActive, currentIndex, index, dotsLen)
         /\ content' = IF petsLen > index THEN UpdateContent(index) ELSE content
         /\ timelines' = IF animate
                         THEN Append(timelines, [index |-> index,
                                                 phase |-> "fadeOut",
                                                 elapsed |-> 0])
                         ELSE timelines
         /\ currentIndex' = currentIndex
         /\ timeouts' = Append(timeouts,
                               [elapsed |-> 0,
                                delay |-> ResetDelay(animate)])
         /\ target' = index
         /\ accepted' = TRUE
         /\ rejectedInFlight' = FALSE

UpdateSlide(index, animate) ==
    IF isTransitioning /\ animate
    THEN Rejected
    ELSE /\ Len(timeouts) < MaxTimers
         /\ Len(timelines) < MaxTimers
         /\ isTransitioning' = TRUE
         /\ slideActive' = Toggle(slideActive, currentIndex, index, slidesLen)
         /\ dotActive' = Toggle(dotActive, currentIndex, index, dotsLen)
         /\ content' = IF petsLen > index THEN UpdateContent(index) ELSE content
         /\ timelines' = IF animate
                         THEN Append(timelines, [index |-> index,
                                                 phase |-> "fadeOut",
                                                 elapsed |-> 0])
                         ELSE timelines
         /\ currentIndex' = index
         /\ timeouts' = Append(timeouts,
                               [elapsed |-> 0,
                                delay |-> ResetDelay(animate)])
         /\ target' = index
         /\ accepted' = TRUE
         /\ rejectedInFlight' = FALSE

\* goToSlide without the `index === this.currentIndex` test
GoToSlideNoSame(index) ==
    IF isTransitioning
    THEN Rejected
    ELSE UpdateSlide(index, TRUE)

GoToSlide(index) ==
    IF isTransitioning \/ index = currentIndex
    THEN Rejected
    ELSE UpdateSlide(index, TRUE)

\* the next index without the wraparound
NextIndexNoWrap(i) == i + 1

NextIndex(i) == (i + 1) % slidesLen

PrevIndex(i) == IF i = 0 THEN slidesLen - 1 ELSE i - 1

NextSlide ==
    IF isTransitioning THEN Rejected ELSE GoToSlide(NextIndex(currentIndex))

PrevSlide ==
    IF isTransitioning THEN Rejected ELSE GoToSlide(PrevIndex(currentIndex))

(* ---------------- autoplay ---------------- *)

\* clearInterval(id): the interval no longer fires
ClearInterval(ivs, id) == [j \in DOMAIN ivs \ {id} |-> ivs[j]]

\* the live intervals that pauseAutoPlay() leaves
PausedIntervals ==
    IF autoPlayTimer # 0 THEN ClearInterval(intervals, autoPlayTimer)
    ELSE intervals

PauseAutoPlay ==
    /\ autoPlayTimer' = 0
    /\ intervals' = PausedIntervals

\* startAutoPlay() without the pauseAutoPlay() that clears the running timer
StartAutoPlayNoClear(enabled) ==
    IF ~enabled \/ slidesLen <= 1
    THEN UNCHANGED <<autoPlayTimer, intervals>>
    ELSE LET free == (1 .. MaxTimers) \ DOMAIN intervals
             id == CHOOSE j \in free : \A k \in free : j <= k
         IN /\ free # {}
            /\ autoPlayTimer' = id
            /\ intervals' = [j \in DOMAIN intervals \cup {id} |->
                               IF j = id THEN 0 ELSE intervals[j]]

\* startAutoPlay() without the `this.slides.length <= 1` test
StartAutoPlayNoCount(enabled) ==
    IF ~enabled
    THEN UNCHANGED <<autoPlayTimer, intervals>>
    ELSE LET cleared == PausedIntervals
             free == (1 .. MaxTimers) \ DOMAIN cleared
             id == CHOOSE j \in free : \A k \in free : j <= k
         IN /\ free # {}
            /\ autoPlayTimer' = id
            /\ intervals' = [j \in DOMAIN cleared \cup {id} |->
                               IF j = id THEN 0 ELSE cleared[j]]

\* startAutoPlay() as run with this.autoPlay = enabled
StartAutoPlay(enabled) ==
    IF ~enabled \/ slidesLen <= 1
    THEN UNCHANGED <<autoPlayTimer, intervals>>
    ELSE LET cleared == PausedIntervals
             free == (1 .. MaxTimers) \ DOMAIN cleared
             id == CHOOSE j \in free : \A k \in free : j <= k
         IN /\ free # {}
            /\ autoPlayTimer' = id
            /\ intervals' = [j \in DOMAIN cleared \cup {id} |->
                               IF j = id THEN 0 ELSE cleared[j]]

\* play(); the step records in its argument whether autoPlay was set before
Play ==
    /\ autoPlay' = TRUE
    /\ StartAutoPlay(TRUE)
    /\ NoCommand
    /\ Log("play", "none", IF autoPlay THEN 1 ELSE 0)
    /\ UNCHANGED cfgVars

\* a pause() that also cancels the pending reset timer of updateSlide
PauseCancelsReset ==
    /\ autoPlay' = FALSE
    /\ PauseAutoPlay
    /\ accepted' = FALSE
    /\ timeouts' = <<>>
    /\ UNCHANGED <<currentIndex, isTransitioning, timelines, slideActive,
                   dotActive, content, target, rejectedInFlight>>
    /\ Log("pause", "none", 0)
    /\ UNCHANGED cfgVars

Pause ==
    /\ autoPlay' = FALSE
    /\ PauseAutoPlay
    /\ NoCommand
    /\ Log("pause", "none", 0)
    /\ UNCHANGED cfgVars

Destroy ==
    /\ PauseAutoPlay
    /\ NoCommand
    /\ Log("destroy", "none", 0)
    /\ UNCHANGED <<autoPlay, cfgVars>>

(* ---------------- listeners of setupEventListeners ---------------- *)

ClickPrev ==
    /\ mounted
    /\ PrevSlide
    /\ Log("prevBtn", "prev", 0)
    /\ UNCHANGED <<autoVars, cfgVars>>

ClickNext ==
    /\ mounted
    /\ NextSlide
    /\ Log("nextBtn", "next", 0)
    /\ UNCHANGED <<autoVars, cfgVars>>

ClickDot(index) ==
    /\ mounted
    /\ GoToSlide(index)
    /\ Log("dot", "goto", index)
    /\ UNCHANGED <<autoVars, cfgVars>>

KeyDown(key) ==
    /\ mounted
    /\ IF key = "ArrowLeft" THEN PrevSlide
       ELSE IF key = "ArrowRight" THEN NextSlide
       ELSE NoCommand
    /\ Log("key",
                    IF key = "ArrowLeft" THEN "prev"
                    ELSE IF key = "ArrowRight" THEN "next" ELSE "none", 0)
    /\ UNCHANGED <<autoVars, cfgVars>>

MouseEnter ==
    /\ mounted
    /\ PauseAutoPlay
    /\ NoCommand
    /\ Log("mouseenter", "none", 0)
    /\ UNCHANGED <<autoPlay, cfgVars>>

\* a mouseleave listener that restarts the timer whatever this.autoPlay is
MouseLeaveAlways ==
    /\ mounted
    /\ StartAutoPlay(TRUE)
    /\ NoCommand
    /\ Log("mouseleave", "none", 0)
    /\ UNCHANGED <<autoPlay, cfgVars>>

MouseLeave ==
    /\ mounted
    /\ StartAutoPlay(autoPlay)
    /\ NoCommand
    /\ Log("mouseleave", "none", 0)
    /\ UNCHANGED <<autoPlay, cfgVars>>

\* the swipe test with `>= 50` in place of `> 50`
SwipeCommandAtLeast(startX, startY, endX, endY) ==
    LET diffX == startX - endX
        diffY == startY - endY
    IN IF Abs(diffX) > Abs(diffY) /\ Abs(diffX) >= SwipeThreshold
       THEN (IF diffX > 0 THEN "next" ELSE "prev")
       ELSE "none"

\* the command a touchstart at (startX, startY) followed by a touchend at
\* (endX, endY) issues
SwipeCommand(startX, startY, endX, endY) ==
    LET diffX == startX - endX
        diffY == startY - endY
    IN IF Abs(diffX) > Abs(diffY) /\ Abs(diffX) > SwipeThreshold
       THEN (IF diffX > 0 THEN "next" ELSE "prev")
       ELSE "none"

\* the touchstart and touchend listeners, run for one gesture; the step
\* records the displacements of the gesture
Touch(startX, startY, endX, endY) ==
    LET cmd == SwipeCommand(startX, startY, endX, endY)
    IN /\ mounted
       /\ IF cmd = "next" THEN NextSlide
          ELSE IF cmd = "prev" THEN PrevSlide
          ELSE NoCommand
       /\ last' = [src |-> "touch", cmd |-> cmd, arg |-> 0,
                   diffX |-> startX - endX, diffY |-> startY - endY]
       /\ hist' = HistNext(cmd)
       /\ UNCHANGED <<autoVars, cfgVars, stagger, motionVars>>

(* ---------------- timers ---------------- *)

\* the callback of setInterval in startAutoPlay
AutoPlayTick(id) ==
    /\ id \in DOMAIN intervals
    /\ intervals[id] >= AutoPlayDelay
    /\ intervals' = [intervals EXCEPT ![id] = 0]
    /\ NextSlide
    /\ Log("autoplay", "next", 0)
    /\ UNCHANGED <<autoPlay, autoPlayTimer, cfgVars>>

RemoveAt(s, k) == SubSeq(s, 1, k - 1) \o SubSeq(s, k + 1, Len(s))

\* the callback of setTimeout in updateSlide
ResetFire(k) ==
    /\ k \in 1 .. Len(timeouts)
    /\ timeouts[k].elapsed >= timeouts[k].delay
    /\ isTransitioning' = FALSE
    /\ timeouts' = RemoveAt(timeouts, k)
    /\ accepted' = FALSE
    /\ Log("reset", "none", 0)
    /\ UNCHANGED <<rejectedInFlight, currentIndex, timelines, slideActive, dotActive, content,
                   target, autoVars, cfgVars>>

\* the .call() of the timeline, at the end of the fade-out tween
MidpointCall(k) ==
    /\ k \in 1 .. Len(timelines)
    /\ timelines[k].phase = "fadeOut"
    /\ timelines[k].elapsed >= FadeOutTime
    /\ content' = UpdateContent(timelines[k].index)
    /\ timelines' = [timelines EXCEPT ![k] = [index |-> timelines[k].index,
                                              phase |-> "fadeIn",
                                              elapsed |-> 0]]
    /\ accepted' = FALSE
    /\ Log("midpoint", "none", timelines[k].index)
    /\ UNCHANGED <<rejectedInFlight, currentIndex, isTransitioning, timeouts, slideActive,
                   dotActive, target, autoVars, cfgVars>>

\* the end of the timeline, when the staggered fade-in tween is over
TimelineDone(k) ==
    /\ k \in 1 .. Len(timelines)
    /\ timelines[k].phase = "fadeIn"
    /\ timelines[k].elapsed >= FadeInTime
    /\ timelines' = RemoveAt(timelines, k)
    /\ accepted' = FALSE
    /\ Log("done", "none", timelines[k].index)
    /\ UNCHANGED <<rejectedInFlight, currentIndex, isTransitioning, timeouts, slideActive,
                   dotActive, content, target, autoVars, cfgVars>>

TimelineDue(t) ==
    \/ t.phase = "fadeOut" /\ t.elapsed >= FadeOutTime
    \/ t.phase = "fadeIn" /\ t.elapsed >= FadeInTime

SomeTimerDue ==
    \/ \E k \in 1 .. Len(timeouts) : timeouts[k].elapsed >= timeouts[k].delay
    \/ \E k \in 1 .. Len(timelines) : TimelineDue(timelines[k])
    \/ \E id \in DOMAIN intervals : intervals[id] >= AutoPlayDelay

SomeTimerPending ==
    timeouts # <<>> \/ timelines # <<>> \/ DOMAIN intervals # {}

\* 100 ms pass
Tick ==
    /\ SomeTimerPending
    /\ ~SomeTimerDue
    /\ timeouts' = [k \in 1 .. Len(timeouts) |->
                      [timeouts[k] EXCEPT !.elapsed = @ + 1]]
    /\ timelines' = [k \in 1 .. Len(timelines) |->
                       [timelines[k] EXCEPT !.elapsed = @ + 1]]
    /\ intervals' = [id \in DOMAIN intervals |-> intervals[id] + 1]
    /\ accepted' = FALSE
    /\ Log("tick", "none", 0)
    /\ UNCHANGED <<rejectedInFlight, currentIndex, isTransitioning, slideActive, dotActive,
                   content, target, autoPlay, autoPlayTimer, cfgVars>>

(* ---------------- Motion.calculateStaggerDelays ---------------- *)

\* the `from` argument: a string or a number
FromString(str) == [type |-> "string", str |-> str, num |-> 0]
FromNumber(num) == [type |-> "number", str |-> "", num |-> num]

\* calculateStaggerDelays without the loop for a numeric `from`
CalculateStaggerDelaysNoNumber(length, staggerDelay, from) ==
    LET center == length \div 2
    IN IF from.type = "string" /\ from.str = "end"
       THEN [k \in 1 .. length |-> (length - 1 - (k - 1)) * staggerDelay]
       ELSE IF from.type = "string" /\ from.str = "center"
       THEN [k \in 1 .. length |-> Abs((k - 1) - center) * staggerDelay]
       ELSE [k \in 1 .. length |-> (k - 1) * staggerDelay]

\* calculateStaggerDelays(length, staggerDelay, from): element k of the
\* result is delays[k - 1]; the switch fills the array, and the loop under
\* typeof from === 'number' then overwrites it
CalculateStaggerDelays(length, staggerDelay, from) ==
    LET center == length \div 2
        switched ==
            IF from.type = "string" /\ from.str = "end"
            THEN [k \in 1 .. length |-> (length - 1 - (k - 1)) * staggerDelay]
            ELSE IF from.type = "string" /\ from.str = "center"
            THEN [k \in 1 .. length |-> Abs((k - 1) - center) * staggerDelay]
            ELSE [k \in 1 .. length |-> (k - 1) * staggerDelay]
    IN IF from.type = "number"
       THEN [k \in 1 .. length |-> Abs((k - 1) - from.num) * staggerDelay]
       ELSE switched

NoStagger == [called |-> FALSE, length |-> 0, staggerDelay |-> 0,
              from |-> FromString("start"), delays |-> <<>>]

\* the values of `from` tried: the three keywords, another string, and
\* numbers around the indices
Froms ==
    {FromString(str) : str \in {"start", "end", "center", "random"}}
        \cup {FromNumber(num) : num \in -1 .. MaxStaggerLen}

\* one call of Motion.calculateStaggerDelays
StaggerCall(length, staggerDelay, from) ==
    /\ stagger' = [called |-> TRUE, length |-> length,
                   staggerDelay |-> staggerDelay, from |-> from,
                   delays |-> CalculateStaggerDelays(length, staggerDelay,
                                                     from)]
    /\ UNCHANGED <<cfgVars, slideVars, autoVars, last, hist, motionVars>>

(* ---------------- MotionElement ---------------- *)

sliderVars == <<cfgVars, slideVars, autoVars, last, hist, stagger>>

\* the events the gesture helpers listen to
ElementEvents == {"mouseenter", "mouseleave", "mousedown", "mouseup",
                  "touchstart", "touchend"}

\* element.addEventListener(event, handler), the handler being the closure
\* `handler` made by registration number `reg`
Listener(event, handler, reg) ==
    [event |-> event, handler |-> handler, reg |-> reg]

\* what whileHover adds to the element
HoverAdded(reg) ==
    {Listener("mouseenter", "hoverIn", reg),
     Listener("mouseleave", "hoverOut", reg)}

\* what whileTap adds to the element
TapAdded(reg) ==
    {Listener("mousedown", "tapStart", reg),
     Listener("mouseup", "tapEnd", reg),
     Listener("mouseleave", "tapEnd", reg),
     Listener("touchstart", "tapStart", reg),
     Listener("touchend", "tapEnd", reg)}

\* what destroy() removes for the closures kept under 'hover'
HoverRemoved(reg) ==
    {Listener("mouseenter", "hoverIn", reg),
     Listener("mouseleave", "hoverOut", reg)}

\* what destroy() removes for the closures kept under 'tap'
TapRemoved(reg) ==
    {Listener("mousedown", "tapStart", reg),
     Listener("mouseup", "tapEnd", reg),
     Listener("touchstart", "tapStart", reg),
     Listener("touchend", "tapEnd", reg)}

\* this.listeners.set(kind, closures): a later call replaces the entry
MapSet(map, kind, reg) ==
    [t \in DOMAIN map \cup {kind} |-> IF t = kind THEN reg ELSE map[t]]

EmptyMap == [t \in {} |-> 0]

\* gsap.timeline({onStart, onComplete}) as animate() makes it: `handle` is
\* TRUE iff the caller kept the object animate() returned, `then` is TRUE
\* iff then(callback) has replaced the onComplete callback
NewTimeline(handle) == [phase |-> "pending", handle |-> handle, then |-> FALSE]

MotionStep(op, started) == [op |-> op, started |-> started]

\* new MotionElement(element)
NoMotion ==
    /\ elementListeners = {}
    /\ listeners = EmptyMap
    /\ registrations = 0
    /\ isAnimating = FALSE
    /\ motionTimelines = <<>>
    /\ destroyed = FALSE
    /\ motionLast = MotionStep("new", 0)

\* whileHover(animation, options)
WhileHover ==
    /\ registrations < MaxRegistrations
    /\ registrations' = registrations + 1
    /\ elementListeners' = elementListeners \cup HoverAdded(registrations + 1)
    /\ listeners' = MapSet(listeners, "hover", registrations + 1)
    /\ destroyed' = FALSE
    /\ motionLast' = MotionStep("whileHover", 0)
    /\ UNCHANGED <<isAnimating, motionTimelines, sliderVars>>

\* whileTap(animation, options)
WhileTap ==
    /\ registrations < MaxRegistrations
    /\ registrations' = registrations + 1
    /\ elementListeners' = elementListeners \cup TapAdded(registrations + 1)
    /\ listeners' = MapSet(listeners, "tap", registrations + 1)
    /\ destroyed' = FALSE
    /\ motionLast' = MotionStep("whileTap", 0)
    /\ UNCHANGED <<isAnimating, motionTimelines, sliderVars>>

\* MotionElement.destroy(): the listeners kept in this.listeners are
\* removed and the map is cleared; gsap.killTweensOf(element) empties the
\* live timelines, which either still run to their end or are gone
MotionDestroy ==
    /\ elementListeners' =
         elementListeners
            \ ((IF "hover" \in DOMAIN listeners
                THEN HoverRemoved(listeners["hover"]) ELSE {})
               \cup (IF "tap" \in DOMAIN listeners
                     THEN TapRemoved(listeners["tap"]) ELSE {}))
    /\ listeners' = EmptyMap
    /\ motionTimelines' \in {motionTimelines, <<>>}
    /\ destroyed' = TRUE
    /\ motionLast' = MotionStep("destroy", 0)
    /\ UNCHANGED <<registrations, isAnimating, sliderVars>>

\* the browser dispatches `event` on the element: every listener added for
\* it runs, and each calls this.animate(...), dropping what it returns
ElementEvent(event) ==
    LET n == Cardinality({l \in elementListeners : l.event = event})
    IN /\ Len(motionTimelines) + n <= MaxMotionTimelines
       /\ motionTimelines' =
            motionTimelines \o [k \in 1 .. n |-> NewTimeline(FALSE)]
       /\ motionLast' = MotionStep(event, n)
       /\ UNCHANGED <<elementListeners, listeners, registrations,
                      isAnimating, destroyed, sliderVars>>

\* animate(keyframes, options) called by the page, which keeps the
\* returned object
Animate ==
    /\ Len(motionTimelines) < MaxMotionTimelines
    /\ motionTimelines' = Append(motionTimelines, NewTimeline(TRUE))
    /\ motionLast' = MotionStep("animate", 1)
    /\ UNCHANGED <<elementListeners, listeners, registrations, isAnimating,
                   destroyed, sliderVars>>

\* then(callback) on the object animate() returned:
\* tl.eventCallback('onComplete', callback) replaces the onComplete
Then(k) ==
    /\ k \in 1 .. Len(motionTimelines)
    /\ motionTimelines[k].handle
    /\ ~motionTimelines[k].then
    /\ motionTimelines' = [motionTimelines EXCEPT ![k].then = TRUE]
    /\ motionLast' = MotionStep("then", 0)
    /\ UNCHANGED <<elementListeners, listeners, registrations, isAnimating,
                   destroyed, sliderVars>>

\* stop() on the object animate() returned: tl.kill(), no callback runs
Stop(k) ==
    /\ k \in 1 .. Len(motionTimelines)
    /\ motionTimelines[k].handle
    /\ motionTimelines' = RemoveAt(motionTimelines, k)
    /\ motionLast' = MotionStep("stop", 0)
    /\ UNCHANGED <<elementListeners, listeners, registrations, isAnimating,
                   destroyed, sliderVars>>

\* onStart of the timeline: this.isAnimating = true
TimelineStart(k) ==
    /\ k \in 1 .. Len(motionTimelines)
    /\ motionTimelines[k].phase = "pending"
    /\ motionTimelines' = [motionTimelines EXCEPT ![k].phase = "running"]
    /\ isAnimating' = TRUE
    /\ motionLast' = MotionStep("onStart", 0)
    /\ UNCHANGED <<elementListeners, listeners, registrations, destroyed,
                   sliderVars>>

\* the timeline reaches its end: its onComplete callback runs, which is
\* `this.isAnimating = false` unless then(callback) has replaced it
TimelineComplete(k) ==
    /\ k \in 1 .. Len(motionTimelines)
    /\ motionTimelines[k].phase = "running"
    /\ motionTimelines' = RemoveAt(motionTimelines, k)
    /\ isAnimating' = IF motionTimelines[k].then THEN isAnimating ELSE FALSE
    /\ motionLast' = MotionStep("onComplete", 0)
    /\ UNCHANGED <<elementListeners, listeners, registrations, destroyed,
                   sliderVars>>

(* ---------------- the state after construction ---------------- *)

Keys == {"ArrowLeft", "ArrowRight", "Enter"}

\* the pets data: the ages run through 0 .. MaxAge, the first being `first`
AgesFrom(first) == [i \in 0 .. petsLen - 1 |-> (first + i) % (MaxAge + 1)]

\* new ModernHeroSlider(...) on a page with one of `counts` slides whose
\* first pet has one of the ages `firstAges`
ConstructedOf(counts, firstAges) ==
    /\ container \in BOOLEAN
    /\ slidesLen \in counts
    /\ dotsLen \in {slidesLen, slidesLen + ExtraDots}
    /\ petsLen \in {0, slidesLen}
    /\ petsAge \in {AgesFrom(first) : first \in firstAges}
    /\ stagger = NoStagger
    /\ NoMotion
    /\ autoPlay = TRUE
    /\ currentIndex = 0
    /\ target = 0
    /\ last = Step("init", "none", 0)
    /\ rejectedInFlight = FALSE
    /\ timelines = <<>>
    /\ IF mounted
       THEN /\ isTransitioning = TRUE
            /\ accepted = TRUE
            /\ timeouts = <<[elapsed |-> 0, delay |-> ResetDelay(FALSE)]>>
            /\ slideActive = {0}
            /\ dotActive = {0} \cap (0 .. dotsLen - 1)
            /\ content = IF petsLen > 0 THEN 0 ELSE ServerRendered
            /\ autoPlayTimer = IF autoPlay /\ slidesLen > 1 THEN 1 ELSE 0
            /\ intervals = IF autoPlay /\ slidesLen > 1
                           THEN [j \in {1} |-> 0]
                           ELSE [j \in {} |-> 0]
       ELSE /\ isTransitioning = FALSE
            /\ accepted = FALSE
            /\ timeouts = <<>>
            /\ slideActive \in {{}, {0} \cap (0 .. slidesLen - 1)}
            /\ dotActive = slideActive \cap (0 .. dotsLen - 1)
            /\ content = ServerRendered
            /\ autoPlayTimer = 0
            /\ intervals = [j \in {} |-> 0]

Constructed == ConstructedOf(0 .. MaxSlides, {0})

Init ==
    /\ Constructed
    /\ hist = NoHist(FALSE)

\* touchstart and touchend positions <<startX, startY, endX, endY>>
Gestures ==
    {<<6, 0, 0, 1>>, <<0, 0, 6, 1>>, <<3, 0, 0, 0>>, <<5, 0, 0, 0>>,
     <<6, 6, 0, 0>>}

Next ==
    \/ ClickPrev
    \/ ClickNext
    \/ \E index \in 0 .. dotsLen - 1 : ClickDot(index)
    \/ \E key \in Keys : KeyDown(key)
    \/ MouseEnter
    \/ MouseLeave
    \/ \E g \in Gestures : Touch(g[1], g[2], g[3], g[4])
    \/ Play
    \/ Pause
    \/ Destroy
    \/ \E id \in DOMAIN intervals : AutoPlayTick(id)
    \/ \E k \in 1 .. Len(timeouts) : ResetFire(k)
    \/ \E k \in 1 .. Len(timelines) : MidpointCall(k)
    \/ \E k \in 1 .. Len(timelines) : TimelineDone(k)
    \/ Tick

Spec == Init /\ [][Next]_vars

\* the carousel driven by the next button, the public API, the hover
\* listeners and its timers
NextLive ==
    \/ ClickNext
    \/ MouseEnter
    \/ MouseLeave
    \/ Play
    \/ Pause
    \/ Destroy
    \/ \E id \in DOMAIN intervals : AutoPlayTick(id)
    \/ \E k \in 1 .. Len(timeouts) : ResetFire(k)
    \/ \E k \in 1 .. Len(timelines) : MidpointCall(k)
    \/ \E k \in 1 .. Len(timelines) : TimelineDone(k)
    \/ Tick

\* the event loop runs every timer callback that is due, and time passes
SpecFair ==
    /\ Init
    /\ [][NextLive]_vars
    /\ WF_vars(Tick)
    /\ WF_vars(\E k \in 1 .. Len(timeouts) : ResetFire(k))
    /\ WF_vars(\E k \in 1 .. Len(timelines) : MidpointCall(k))
    /\ WF_vars(\E k \in 1 .. Len(timelines) : TimelineDone(k))
    /\ WF_vars(\E id \in DOMAIN intervals : AutoPlayTick(id))

(* ---------------- the texts of the info card ---------------- *)

DigitChars == <<"0", "1", "2", "3", "4", "5", "6", "7", "8", "9">>

\* String(n) for a natural number n: its decimal digits
RECURSIVE Decimal(_)
Decimal(n) ==
    IF n < 10 THEN <<DigitChars[n + 1]>>
    ELSE Append(Decimal(n \div 10), DigitChars[(n % 10) + 1])

\* str.padStart(targetLength, pad) for a pad of one character
RECURSIVE PadStart(_, _, _)
PadStart(str, targetLength, pad) ==
    IF Len(str) >= targetLength THEN str
    ELSE PadStart(<<pad>> \o str, targetLength, pad)

\* the counter numbered from zero
CounterTextFromZero(index) == PadStart(Decimal(index), 2, "0")

\* String(index + 1).padStart(2, "0")
CounterText(index) == PadStart(Decimal(index + 1), 2, "0")

\* the singular used up to one year
AgeTextUpToOne(age) ==
    Decimal(age) \o <<" ", IF age <= 1 THEN "year" ELSE "years">>

\* `${pet.age} ${pet.age === 1 ? "year" : "years"}`
AgeText(age) ==
    Decimal(age) \o <<" ", IF age = 1 THEN "year" ELSE "years">>

\* textContent of #petCounter once updateContent has written it
petCounter == CounterText(content)

\* textContent of #petAge once updateContent has written it
petAge == AgeText(petsAge[content])

\* a long carousel, and a short one, left to their autoplay
InitText ==
    /\ ConstructedOf({2, MaxTextSlides}, 0 .. MaxAge)
    /\ hist = NoHist(FALSE)

NextText ==
    \/ \E id \in DOMAIN intervals : AutoPlayTick(id)
    \/ \E k \in 1 .. Len(timeouts) : ResetFire(k)
    \/ \E k \in 1 .. Len(timelines) : MidpointCall(k)
    \/ \E k \in 1 .. Len(timelines) : TimelineDone(k)
    \/ Tick

SpecText == InitText /\ [][NextText]_vars

(* ---------------- the stagger helper on its own ---------------- *)

\* a page without carousel that calls Motion.calculateStaggerDelays
InitStagger ==
    /\ ConstructedOf({0}, {0})
    /\ hist = NoHist(FALSE)

NextStagger ==
    \E length \in 0 .. MaxStaggerLen, staggerDelay \in -1 .. MaxStaggerDelay,
       from \in Froms : StaggerCall(length, staggerDelay, from)

SpecStagger == InitStagger /\ [][NextStagger]_vars

(* ---------------- the motion element on its own ---------------- *)

\* a page without carousel that wraps one element in a MotionElement
InitMotion ==
    /\ ConstructedOf({0}, {0})
    /\ hist = NoHist(FALSE)

\* gestures registered, events dispatched, destroy() called
NextMotion ==
    \/ WhileHover
    \/ WhileTap
    \/ MotionDestroy
    \/ \E event \in ElementEvents : ElementEvent(event)
    \/ \E k \in 1 .. Len(motionTimelines) : TimelineStart(k)
    \/ \E k \in 1 .. Len(motionTimelines) : TimelineComplete(k)

SpecMotion == InitMotion /\ [][NextMotion]_vars

\* animations started by the page, chained with then() or stopped
NextAnimate ==
    \/ Animate
    \/ \E k \in 1 .. Len(motionTimelines) : Then(k)
    \/ \E k \in 1 .. Len(motionTimelines) : Stop(k)
    \/ \E k \in 1 .. Len(motionTimelines) : TimelineStart(k)
    \/ \E k \in 1 .. Len(motionTimelines) : TimelineComplete(k)

SpecAnimate == InitMotion /\ [][NextAnimate]_vars

(* ---------------- the recorded run of accepted commands ---------------- *)

InitWrap ==
    /\ Constructed
    /\ hist = NoHist(TRUE)

NextWrap ==
    \/ ClickPrev
    \/ ClickNext
    \/ \E key \in Keys : KeyDown(key)
    \/ \E id \in DOMAIN intervals : AutoPlayTick(id)
    \/ \E k \in 1 .. Len(timeouts) : ResetFire(k)
    \/ \E k \in 1 .. Len(timelines) : MidpointCall(k)
    \/ \E k \in 1 .. Len(timelines) : TimelineDone(k)
    \/ Tick

SpecWrap == InitWrap /\ [][NextWrap]_vars

(* ---------------- properties ---------------- *)

slideState == <<currentIndex, isTransitioning, timeouts, timelines,
                slideActive, dotActive, content>>

ValidIndex(i) == i \in 0 .. slidesLen - 1

PendingSwaps == {k \in 1 .. Len(timelines) : timelines[k].phase = "fadeOut"}

LiveIntervals == Cardinality(DOMAIN intervals)

\* C1: at most one reset timer is ever pending, the flag is set exactly
\* while one is pending, and while one is pending every next / prev / goto
\* command, whatever its source, is rejected and changes nothing of the
\* slide state.
C1_OneTransitionInFlight ==
    /\ [](Len(timeouts) <= 1 /\ (isTransitioning <=> timeouts # <<>>))
    /\ [][(timeouts # <<>> /\ last'.cmd \in Commands)
            => (~accepted' /\ UNCHANGED slideState)]_vars

\* a command issued by the autoplay timer was rejected during an animated
\* transition
C1_Witness ==
    /\ last.src = "autoplay"
    /\ ~accepted
    /\ isTransitioning
    /\ Len(timeouts) = 1
    /\ timeouts[1].delay = TransitionTime

\* C2: a command issued while the flag is set changes nothing, and in the
\* step that clears the flag currentIndex is the index of the one call
\* that was accepted.
C2_FinalIndexIsAcceptedTarget ==
    [][/\ (isTransitioning /\ last'.cmd \in Commands)
            => UNCHANGED <<slideState, target>>
       /\ (isTransitioning /\ ~isTransitioning')
            => (currentIndex' = target /\ target' = target)]_vars

\* an animated transition has completed after commands were rejected
\* during it
C2_Witness ==
    /\ last.src = "reset"
    /\ timelines # <<>>
    /\ rejectedInFlight
    /\ ~isTransitioning
    /\ currentIndex = target

\* C3: currentIndex is the index of a slide in every state, and a
\* goToSlide with an index out of bounds changes nothing.
C3_IndexAlwaysValid ==
    /\ [](slidesLen > 0 => ValidIndex(currentIndex))
    /\ [][(last'.cmd = "goto" /\ ~ValidIndex(last'.arg))
            => (~accepted' /\ UNCHANGED slideState)]_vars

\* C4: goToSlide(currentIndex) changes nothing, in flight or not.
C4_GoToCurrentIsNoOp ==
    [][(last'.cmd = "goto" /\ last'.arg = currentIndex)
         => (~accepted' /\ UNCHANGED progVars)]_vars

\* the dot of the current slide was clicked while no transition was in
\* flight
C4_Witness ==
    /\ last.src = "dot"
    /\ last.arg = currentIndex
    /\ ~isTransitioning
    /\ ~accepted
    /\ timeouts = <<>>

\* C5: from the index of a slide, N accepted nextSlide calls in a row lead
\* back to that index, and an accepted nextSlide followed by an accepted
\* prevSlide, or the other way round, leads back to it too.
C5_Wraparound ==
    /\ (hist.len = slidesLen /\ ValidIndex(hist.start))
          => currentIndex = hist.start
    /\ (hist.c1 = "next" /\ hist.c2 = "prev" /\ ValidIndex(hist.from1))
          => currentIndex = hist.from1
    /\ (hist.c1 = "prev" /\ hist.c2 = "next" /\ ValidIndex(hist.from1))
          => currentIndex = hist.from1

\* N >= 3 nextSlide calls in a row were accepted, the last of them across
\* the N-1 / 0 boundary
C5_Witness ==
    /\ slidesLen >= 3
    /\ hist.len = slidesLen
    /\ hist.from2 = slidesLen - 1
    /\ currentIndex = 0
    /\ hist.start = 0

\* C6 as stated: currentIndex changes only in the step that clears the
\* flag.
C6_CommitOnlyAtCompletion ==
    [][currentIndex' # currentIndex
         => (isTransitioning /\ ~isTransitioning')]_vars

\* C6 as amended: the step that accepts a transition sets the flag and
\* sets currentIndex to the target at once; the flag is cleared only when
\* the reset timer has run its delay (800 ms after an animated acceptance),
\* and that step leaves currentIndex alone.
C6_CommitAtAcceptance ==
    [][/\ accepted' => (isTransitioning' /\ currentIndex' = target')
       /\ (isTransitioning /\ ~isTransitioning')
            => /\ currentIndex' = currentIndex
               /\ timeouts # <<>>
               /\ timelines # <<>> => timeouts[1].elapsed = TransitionTime]_vars

\* an animated transition is half way: the flag is set and currentIndex is
\* already the target
C6_Witness ==
    /\ isTransitioning
    /\ PendingSwaps # {}
    /\ Len(timeouts) = 1
    /\ timeouts[1].elapsed > 0
    /\ timeouts[1].elapsed < TransitionTime
    /\ currentIndex = target
    /\ currentIndex # 0

\* C7: the displayed content changes only in the midpoint call of a
\* timeline, at the end of the fade-out.
C7_SwapOnlyAtMidpoint ==
    [][content' # content => last'.src = "midpoint"]_vars

\* C8 as stated, for the indices of slides: after the midpoint swap of a
\* transition the displayed content is that of currentIndex.
C8_ContentIsCurrentAfterSwap ==
    [][(last'.src = "midpoint" /\ ValidIndex(currentIndex'))
         => content' = currentIndex']_vars

\* C8 as amended: at most one midpoint swap is pending, no transition is
\* accepted while one is pending, and after the swap the displayed content
\* is that of currentIndex when pets holds data for that index, and is what
\* it was before the transition otherwise.
C8_SwapsSerialized ==
    /\ [](Cardinality(PendingSwaps) <= 1)
    /\ [][/\ accepted' => PendingSwaps = {}
          /\ last'.src = "midpoint"
               => /\ last'.arg = currentIndex
                  /\ content' = IF currentIndex \in 0 .. petsLen - 1
                                THEN currentIndex ELSE content]_vars

\* the midpoint swap of a transition to a slide with pet data has just run
C8_Witness ==
    /\ last.src = "midpoint"
    /\ isTransitioning
    /\ PendingSwaps = {}
    /\ currentIndex # 0
    /\ content = currentIndex

\* C9 as stated, for a mounted carousel: play() leaves exactly one autoplay
\* interval running.
C9_PlayLeavesOneTimer ==
    [][(mounted /\ last'.src = "play")
         => Cardinality(DOMAIN intervals') = 1]_vars

\* C9 as amended: at most one autoplay interval is live in every state;
\* play() issues no slide command and, when there is more than one slide,
\* leaves exactly one interval running, whose period starts at the call;
\* with at most one slide play() starts no interval.
C9_PlayRestartsOneTimer ==
    /\ [](LiveIntervals <= 1)
    /\ [][last'.src = "play"
            => /\ ~accepted'
               /\ UNCHANGED slideState
               /\ IF slidesLen > 1
                  THEN /\ DOMAIN intervals' = {autoPlayTimer'}
                       /\ autoPlayTimer' # 0
                       /\ intervals'[autoPlayTimer'] = 0
                  ELSE DOMAIN intervals' = {}]_vars

\* play() has just restarted the interval of a carousel of several slides
\* that pause() had stopped
C9_Witness ==
    /\ mounted
    /\ last.src = "play"
    /\ last.arg = 0
    /\ slidesLen > 1
    /\ LiveIntervals = 1
    /\ autoPlayTimer # 0
    /\ intervals[autoPlayTimer] = 0

\* C10: mouseenter clears the interval and leaves autoPlay alone;
\* mouseleave starts one fresh interval exactly when autoPlay is set and
\* there is more than one slide, and changes nothing otherwise; no interval
\* is live and no autoplay tick happens while autoPlay is off.
C10_HoverRespectsAutoPlay ==
    /\ [](~autoPlay => DOMAIN intervals = {})
    /\ [][/\ last'.src = "mouseenter"
               => (DOMAIN intervals' = {} /\ autoPlayTimer' = 0
                   /\ autoPlay' = autoPlay)
          /\ last'.src = "mouseleave"
               => IF autoPlay /\ slidesLen > 1
                  THEN /\ DOMAIN intervals' = {autoPlayTimer'}
                       /\ autoPlayTimer' # 0
                       /\ intervals'[autoPlayTimer'] = 0
                       /\ autoPlay' = autoPlay
                  ELSE UNCHANGED <<intervals, autoPlayTimer, autoPlay>>
          /\ last'.src = "autoplay" => autoPlay]_vars

\* the pointer has left a paused carousel of several slides and no
\* interval was started
C10_Witness ==
    /\ last.src = "mouseleave"
    /\ ~autoPlay
    /\ slidesLen > 1
    /\ DOMAIN intervals = {}
    /\ autoPlayTimer = 0

\* C11: once destroy() has run no autoplay interval is live, and a
\* mouseleave that follows it starts none.
C11_DestroyStopsAutoplay ==
    /\ [](last.src = "destroy" => DOMAIN intervals = {})
    /\ [][(last.src = "destroy" /\ last'.src = "mouseleave")
            => DOMAIN intervals' = {}]_vars

\* C12: with at most one slide no autoplay interval is ever live, whatever
\* play(), mouseleave or the constructor do, and no autoplay tick occurs.
C12_NoAutoplayForOneSlide ==
    /\ [](slidesLen <= 1 => (DOMAIN intervals = {} /\ autoPlayTimer = 0))
    /\ [][last'.src = "autoplay" => slidesLen > 1]_vars

\* the pointer has left a mounted one-slide carousel whose autoPlay is set,
\* and no interval was started
C12_Witness ==
    /\ mounted
    /\ slidesLen = 1
    /\ last.src = "mouseleave"
    /\ autoPlay
    /\ DOMAIN intervals = {}

\* C13: the flag is set only while the reset timer of the accepted
\* transition is pending, and whenever it is set it is cleared later on,
\* whatever pause(), destroy() and the hover events do meanwhile.
C13_TransitionCompletes ==
    /\ [](isTransitioning => timeouts # <<>>)
    /\ (isTransitioning ~> ~isTransitioning)

\* an animated transition has completed on a carousel that pause() had
\* stopped
C13_Witness ==
    /\ last.src = "reset"
    /\ timelines # <<>>
    /\ ~autoPlay
    /\ ~isTransitioning
    /\ timeouts = <<>>

\* C14: a touch gesture issues a command exactly when its horizontal
\* displacement is more than 50 px and more than its vertical displacement;
\* the command is nextSlide for a drag to the left and prevSlide for a drag
\* to the right, and it takes effect when no transition is in flight; any
\* other gesture changes nothing.
C14_SwipeIssuesOneCommand ==
    [][last'.src = "touch"
         => LET dx == last'.diffX
                dy == last'.diffY
                h == IF dx < 0 THEN -dx ELSE dx
                v == IF dy < 0 THEN -dy ELSE dy
            IN IF h > 5 /\ h > v
               THEN /\ last'.cmd = IF dx > 0 THEN "next" ELSE "prev"
                    /\ (~isTransitioning /\ slidesLen > 1)
                         => /\ accepted'
                            /\ currentIndex' = IF dx > 0
                                               THEN NextIndex(currentIndex)
                                               ELSE PrevIndex(currentIndex)
               ELSE /\ last'.cmd = "none"
                    /\ ~accepted'
                    /\ UNCHANGED progVars]_vars

\* a drag of 60 px to the left and 10 px down has moved the carousel to the
\* next slide
C14_Witness ==
    /\ last.src = "touch"
    /\ last.diffX = 6
    /\ last.diffY = -1
    /\ last.cmd = "next"
    /\ accepted
    /\ isTransitioning
    /\ currentIndex = target

\* C15: a carousel whose container is absent or that has no slide never
\* changes currentIndex and never starts a timer or a transition.
C15_UnmountedIsInert ==
    [](~mounted => /\ currentIndex = 0
                   /\ ~isTransitioning
                   /\ timeouts = <<>>
                   /\ timelines = <<>>
                   /\ DOMAIN intervals = {})

\* the index a command issued in the step just taken asked for
CommandIndex ==
    IF last'.cmd = "next" THEN NextIndex(currentIndex)
    ELSE IF last'.cmd = "prev" THEN PrevIndex(currentIndex)
    ELSE last'.arg

RECURSIVE NumberOf(_)
NumberOf(digits) ==
    IF digits = <<>> THEN 0
    ELSE 10 * NumberOf(SubSeq(digits, 1, Len(digits) - 1))
         + (CHOOSE d \in 0 .. 9 : DigitChars[d + 1] = digits[Len(digits)])

\* the pet whose data the regions show, once updateContent has written them
Shown == content # ServerRendered

\* C17: the age text is the age, a space and a unit, and the unit is "year"
\* exactly when the age is 1, "years" for age 0 and every age >= 2.
C17_AgePluralization ==
    [](Shown =>
        LET age == petsAge[content]
            n == Len(petAge)
        IN /\ n >= 3
           /\ NumberOf(SubSeq(petAge, 1, n - 2)) = age
           /\ petAge[n - 1] = " "
           /\ petAge[n] \in {"year", "years"}
           /\ (petAge[n] = "year" <=> age = 1)
           /\ (age = 0 \/ age >= 2) => petAge[n] = "years")

\* the regions show a pet of age 0 after a content swap
C17_Witness ==
    /\ Shown
    /\ last.src = "midpoint"
    /\ petsAge[content] = 0
    /\ petAge = <<"0", " ", "years">>

\* C18: the counter text of every valid slide index is two digits.
C18_CounterIsTwoDigits ==
    [](Shown => /\ Len(petCounter) = 2
                /\ NumberOf(petCounter) = content + 1)

\* C18, amended: the counter text is the decimal of index + 1 padded with
\* zeros to at least two characters: two digits up to slide 99, the plain
\* decimal from slide 100 on.
C18_CounterIsAtLeastTwoDigits ==
    [](Shown => /\ NumberOf(petCounter) = content + 1
                /\ Len(petCounter) >= 2
                /\ content + 1 <= 99 => Len(petCounter) = 2
                /\ content + 1 >= 100 => petCounter = Decimal(content + 1))

\* the hundredth slide shows a counter of three digits
C18_Witness ==
    /\ Shown
    /\ content = 99
    /\ petCounter = <<"1", "0", "0">>

Reverse(seq) == [k \in 1 .. Len(seq) |-> seq[Len(seq) + 1 - k]]

\* C20: calculateStaggerDelays(length, d, from) returns `length` delays:
\* i*d for 'start' and any unrecognised string, (length-1-i)*d for 'end',
\* |i - floor(length/2)|*d for 'center', |i - from|*d for a numeric from;
\* 'end' is the reverse of 'start', numeric 0 equals 'start', numeric
\* length-1 equals 'end', and for d >= 0 no delay is negative.
C20_StaggerDelays ==
    [](stagger.called =>
        LET length == stagger.length
            d == stagger.staggerDelay
            from == stagger.from
            delays == stagger.delays
            Of(str) == CalculateStaggerDelays(length, d, FromString(str))
        IN /\ Len(delays) = length
           /\ \A i \in 0 .. length - 1 :
                delays[i + 1] =
                    IF from.type = "number" THEN Abs(i - from.num) * d
                    ELSE IF from.str = "end" THEN (length - 1 - i) * d
                    ELSE IF from.str = "center"
                    THEN Abs(i - (length \div 2)) * d
                    ELSE i * d
           /\ from = FromString("end") => delays = Reverse(Of("start"))
           /\ from = FromNumber(0) => delays = Of("start")
           /\ from = FromNumber(length - 1) => delays = Of("end")
           /\ d >= 0 => \A k \in 1 .. length : delays[k] >= 0)

\* four elements staggered from the centre, and from a numeric index
C20_Witness ==
    /\ stagger.called
    /\ stagger.length = 4
    /\ stagger.staggerDelay = 2
    /\ \/ stagger.from = FromString("center") /\ stagger.delays = <<4, 2, 0, 2>>
       \/ stagger.from = FromNumber(1) /\ stagger.delays = <<2, 0, 2, 4>>

\* C21: once destroy() has run, and nothing is registered after it, the
\* listeners map is empty and no mouseenter, mouseleave, mousedown, mouseup,
\* touchstart or touchend event on the element starts an animation.
C21_DestroyRemovesAllListeners ==
    [](destroyed =>
         /\ DOMAIN listeners = {}
         /\ motionLast.op \in ElementEvents => motionLast.started = 0)

\* C22: isAnimating is true while a timeline started by animate() runs, and
\* false once every timeline animate() made has completed or been stopped,
\* with or without then(callback) and with or without overlap.
C22_IsAnimatingTracksTimelines ==
    [](/\ (\E k \in 1 .. Len(motionTimelines) :
              motionTimelines[k].phase = "running") => isAnimating
       /\ motionTimelines = <<>> => ~isAnimating)

=============================================================================
